---- MODULE Spec2Model ----
(***************************************************************************)
(* State-machine model of onmt/modules/Transformer.py: the encoder stack,  *)
(* the decoder stack with its incremental-decoding state, and the decoder  *)
(* state object.                                                           *)
(*                                                                         *)
(* Tensors are nested sequences indexed in the order of their dimensions.  *)
(* Activations are abstract: an activation is a residual stream            *)
(*   [base |-> <<position, token>>, adds |-> sequence of addends]          *)
(* and an attention addend records the set of <<key position, key value>>  *)
(* pairs the query position is allowed to attend to.  Dropout is the       *)
(* identity (evaluation mode).                                             *)
(***************************************************************************)
EXTENDS Integers, Sequences, FiniteSets, TLC

VARIABLES
    num_layers,   \* TransformerEncoder/TransformerDecoder.num_layers
    src,          \* the source batch [len x batch x nfeat] given to the encoder
    heap,         \* the TransformerDecoderState objects, by object identity
    supplied,     \* history: the tgt tensors of the successful forward calls
    last          \* the last operation: its arguments and what it returned

vars == <<num_layers, src, heap, supplied, last>>

(***************************** bounds **************************************)
MaxLayers == 2
MaxSrcLen == 2
MaxBatch == 2
MaxBeam == 2
MaxNew == 2
MaxCum == 3

(*************************** program constants *****************************)
PAD == 0
NEG == -1000000000
None == <<>>

Words == {PAD, 1}

(***************************** tensor helpers ******************************)
\* the element of a singleton set; { e : v \in {d} } names d as v within e
Only(S) == CHOOSE v \in S : TRUE

Size0(t) == Len(t)
Size1(t) == Len(t[1])

\* t.transpose(0, 1)
Transpose01(t) ==
    [b \in 1..Len(t[1]) |-> [i \in 1..Len(t) |-> t[i][b]]]

\* t[:, :, 0]
Feature0(t) ==
    [i \in 1..Len(t) |-> [b \in 1..Len(t[i]) |-> t[i][b][1]]]

\* s repeated k times along its first dimension (torch repeat tiles)
RECURSIVE Tile(_, _)
Tile(s, k) == IF k <= 0 THEN <<>> ELSE s \o Tile(s, k - 1)

\* torch.cat((a, b), dim=0) and torch.cat((a, b), dim=1)
Cat0(a, b) == a \o b
Cat1(a, b) == [i \in 1..Len(a) |-> a[i] \o b[i]]

\* words.data.eq(padding_idx).float() on a [batch x len] tensor of words
EqPad(words) ==
    [b \in 1..Len(words) |->
        [j \in 1..Len(words[b]) |-> IF words[b][j] = PAD THEN 1 ELSE 0]]

(************************** external primitives ****************************)
\* aeq(*args): all arguments equal the first
aeq(args) == \A k \in 1..Len(args) : args[k] = args[1]

\* embeddings(tokens): [len x batch x nfeat] -> [len x batch x emb_dim];
\* the embedding of a token at a position
Embeddings(t) ==
    [i \in 1..Len(t) |->
        [b \in 1..Len(t[i]) |-> [base |-> <<i, t[i][b][1]>>, adds |-> <<>>]]]

\* layers.LayerNorm, pointwise on a [batch x len x channels] tensor
LayerNorm(x) ==
    [b \in 1..Len(x) |-> [i \in 1..Len(x[b]) |-> [ln |-> x[b][i]]]]

\* attention.get_local_mask(length): [1 x length x length], 1 at future keys
get_local_mask(length) ==
    << [i \in 1..length |-> [j \in 1..length |-> IF j > i THEN 1 ELSE 0]] >>

\* index into a dimension that may be broadcast (size 1)
Bc(s, k) == IF Len(s) = 1 THEN s[1] ELSE s[k]

\* the key positions query i of example b may attend to under an additive bias
Allowed(bias, b, i, nk) ==
    IF bias = None THEN 1..nk
    ELSE {j \in 1..nk : Bc(Bc(Bc(bias, b), i), j) = 0}

\* a bias [batch|1 x nq|1 x nk] fits a query [nb x nq] and nk keys
BiasFits(bias, nb, nq, nk) ==
    \/ bias = None
    \/ /\ Len(bias) \in {1, nb}
       /\ \A b \in 1..Len(bias) :
            /\ Len(bias[b]) \in {1, nq}
            /\ \A i \in 1..Len(bias[b]) : Len(bias[b][i]) = nk

\* attention.MultiheadAttention(query, memory, num_heads, bias)
\*   -> (context, weights); memory None means self attention over the query
MultiheadAttention(query, memory, bias) ==
    LET keys == IF memory = None THEN query ELSE memory
        nb == Len(query)
        nq == Len(query[1])
        fits == /\ Len(keys) = nb
                /\ BiasFits(bias, nb, nq, Len(keys[1]))
    IN  IF ~fits THEN [ok |-> FALSE, y |-> None, attn |-> None]
        ELSE [ok |-> TRUE,
              y |-> [b \in 1..nb |-> [i \in 1..nq |->
                       [kind |-> "att",
                        kv |-> {<<j, keys[b][j]>> :
                                  j \in Allowed(bias, b, i, Len(keys[b]))}]]],
              attn |-> [b \in 1..nb |-> [i \in 1..nq |->
                          Allowed(bias, b, i, Len(keys[b]))]]]

\* layers.ffn_layer, pointwise: an addend that depends on its own stream only
ffn(x) ==
    [b \in 1..Len(x) |-> [i \in 1..Len(x[b]) |-> [kind |-> "ffn", kv |-> {}]]]

\* dropout(y) + x
Residual(y, x) ==
    [b \in 1..Len(x) |-> [i \in 1..Len(x[b]) |->
        [base |-> x[b][i].base, adds |-> Append(x[b][i].adds, y[b][i])]]]

\* one attention call as the stacks issue it
Call(kind, layer, bias, nq, nk) ==
    [kind |-> kind, layer |-> layer, bias |-> bias, nq |-> nq, nk |-> nk]

(****************************** EncoderLayer ********************************)
EncoderLayer(x, bias) ==
    Only({ Only({ Only({
        [ok |-> a.ok,
         ans |-> IF a.ok THEN Residual(ffn(norm_x1), x1) ELSE None,
         calls |-> <<Call("enc_self", 0, bias, Len(x[1]), Len(x[1]))>>]
      : norm_x1 \in {IF a.ok THEN LayerNorm(x1) ELSE None} })
      : x1 \in {IF a.ok THEN Residual(a.y, x) ELSE None} })
      : a \in {MultiheadAttention(LayerNorm(x), None, bias)} })

(****************************** DecoderLayer ********************************)
AllInputsNew(previous_input, norm_x) == norm_x

\* the key/value sequence of the self attention (lines 110-112)
AllInputs(previous_input, norm_x) ==
    IF previous_input # None THEN Cat1(previous_input, norm_x) ELSE norm_x

\* the bias the self attention is run with (lines 111-113)
SelfBias(previous_input, self_attention_bias) ==
    IF previous_input # None THEN None ELSE self_attention_bias

\* the stages of DecoderLayer.forward, each on the values of the one before
DecoderLayerFfn(x2, attn, all_inputs, calls) ==
    Only({
        [ok |-> TRUE, ans |-> Residual(ffn(norm_x2), x2), attn |-> attn,
         all_inputs |-> all_inputs, calls |-> calls]
      : norm_x2 \in {LayerNorm(x2)} })

DecoderLayerCross(x1, encoder_output, encoder_decoder_bias, all_inputs, calls) ==
    Only({ Only({
        IF ~a2.ok
        THEN [ok |-> FALSE, ans |-> None, attn |-> None, all_inputs |-> None,
              calls |-> calls]
        ELSE Only({ DecoderLayerFfn(x2, a2.attn, all_inputs, calls)
                    : x2 \in {Residual(a2.y, x1)} })
      : a2 \in {MultiheadAttention(norm_x1, encoder_output,
                                   encoder_decoder_bias)} })
      : norm_x1 \in {LayerNorm(x1)} })

DecoderLayerSelf(x, norm_x, all_inputs, bias1, encoder_output, encoder_decoder_bias) ==
    Only({
        IF ~a1.ok
        THEN [ok |-> FALSE, ans |-> None, attn |-> None, all_inputs |-> None,
              calls |-> <<Call("dec_self", 0, bias1, Len(x[1]),
                               Len(all_inputs[1]))>>]
        ELSE Only({
               DecoderLayerCross(x1, encoder_output, encoder_decoder_bias,
                   all_inputs,
                   <<Call("dec_self", 0, bias1, Len(x[1]), Len(all_inputs[1])),
                     Call("dec_cross", 0, encoder_decoder_bias, Len(x[1]),
                          Len(encoder_output[1]))>>)
               : x1 \in {Residual(a1.y, x)} })
      : a1 \in {MultiheadAttention(norm_x, all_inputs, bias1)} })

DecoderLayer(x, encoder_output, self_attention_bias, encoder_decoder_bias, previous_input) ==
    IF previous_input # None /\ Len(previous_input) # Len(x)
    THEN [ok |-> FALSE, ans |-> None, attn |-> None, all_inputs |-> None,
          calls |-> <<>>]
    ELSE Only({ Only({
           DecoderLayerSelf(x, norm_x, all_inputs,
               SelfBias(previous_input, self_attention_bias),
               encoder_output, encoder_decoder_bias)
         : all_inputs \in {AllInputs(previous_input, norm_x)} })
         : norm_x \in {LayerNorm(x)} })

(*************************** TransformerEncoder *****************************)
\* unsqueeze(mask * -1e9, 1) on a [batch x len] mask
PaddingBias(mask) ==
    [b \in 1..Len(mask) |->
        << [j \in 1..Len(mask[b]) |-> mask[b][j] * NEG] >>]

SetLayer(calls, i) ==
    [k \in 1..Len(calls) |-> [calls[k] EXCEPT !.layer = i]]

RECURSIVE EncoderLoop(_, _, _)
EncoderLoop(i, bias, acc) ==
    IF i > num_layers \/ ~acc.ok THEN acc
    ELSE Only({ Only({ EncoderLoop(i + 1, bias, nxt)
           : nxt \in {[ok |-> r.ok, out |-> r.ans,
                       calls |-> acc.calls \o SetLayer(r.calls, i)]} })
           : r \in {EncoderLayer(acc.out, bias)} })

EncoderForward(input) ==
    Only({ Only({ Only({ Only({
        IF \/ ~aeq(<<Len(out), Len(words)>>)
           \/ ~aeq(<<Len(out[1]), Len(words[1])>>)
           \/ ~r.ok
        THEN [ok |-> FALSE, emb |-> None, out |-> None, calls |-> <<>>]
        ELSE [ok |-> TRUE, emb |-> emb,
              out |-> Transpose01(LayerNorm(r.out)), calls |-> r.calls]
      : r \in {EncoderLoop(1, PaddingBias(EqPad(words)),
                           [ok |-> TRUE, out |-> out, calls |-> <<>>])} })
      : words \in {Transpose01(Feature0(input))} })
      : out \in {Transpose01(emb)} })
      : emb \in {Embeddings(input)} })

(************************* TransformerDecoderState **************************)
\* __init__(self, src)
TransformerDecoderState(s) ==
    [cls |-> "TransformerDecoderState", src |-> s,
     previous_input |-> None, previous_layer_inputs |-> None]

\* a decoder state of another class, as another decoder type would pass
OtherState == [cls |-> "RNNDecoderState"]

isinstance(state) == state.cls = "TransformerDecoderState"

\* the object a reference denotes; reference 0 is the foreign object
Deref(h, ref) == IF ref = 0 THEN OtherState ELSE h[ref]

update_state_inplace(h, self, input, previous_layer_inputs) ==
    [heap |-> [h EXCEPT ![self].previous_input = input,
                        ![self].previous_layer_inputs = previous_layer_inputs],
     ret |-> self]

\* update_state(self, input, previous_layer_inputs): allocates a new object
update_state(h, self, input, previous_layer_inputs) ==
    LET state == [TransformerDecoderState(h[self].src) EXCEPT
                     !.previous_input = input,
                     !.previous_layer_inputs = previous_layer_inputs]
    IN  [heap |-> Append(h, state), ret |-> Len(h) + 1]

RepeatInterleave(t, beam_size) ==
    [i \in 1..Len(t) |->
        [j \in 1..(Len(t[i]) * beam_size) |-> t[i][((j - 1) \div beam_size) + 1]]]

\* self.src.data.repeat(1, beam_size, 1)
RepeatBatch(t, beam_size) ==
    [i \in 1..Len(t) |-> Tile(t[i], beam_size)]

\* repeat_beam_size_times(self, beam_size): rebinds self.src in place
repeat_beam_size_times(h, self, beam_size) ==
    [h EXCEPT ![self].src = RepeatBatch(@, beam_size)]

(*************************** TransformerDecoder *****************************)
Raise(h, n, calls) ==
    [ok |-> FALSE, outputs |-> None, heap |-> h, state |-> 0,
     attns |-> None, calls |-> calls, layers_run |-> n]

EntryChecksNoLen(tgt, memory_bank, state) ==
    LET tgt_batch == Size1(tgt)
        memory_batch == Size1(memory_bank)
        src_words == Transpose01(Feature0(state.src))
        src_batch == Len(src_words)
    IN  /\ aeq(<<tgt_batch, memory_batch>>)
        /\ aeq(<<tgt_batch, memory_batch, src_batch, tgt_batch>>)

\* the shape checks of lines 197-207
EntryChecks(tgt, memory_bank, state) ==
    LET tgt_batch == Size1(tgt)
        memory_len == Size0(memory_bank)
        memory_batch == Size1(memory_bank)
        src_words == Transpose01(Feature0(state.src))
        src_batch == Len(src_words)
        src_len == Len(src_words[1])
    IN  /\ aeq(<<tgt_batch, memory_batch>>)
        /\ aeq(<<tgt_batch, memory_batch, src_batch, tgt_batch>>)
        /\ aeq(<<memory_len, src_len>>)

CatPreviousSwapped(state, tgt) ==
    IF state.previous_input # None
    THEN Cat0(tgt, state.previous_input) ELSE tgt

\* lines 209-210
CatPrevious(state, tgt) ==
    IF state.previous_input # None
    THEN Cat0(state.previous_input, tgt) ELSE tgt

SliceEmbNone(emb, state) == emb

\* lines 221-222: emb[state.previous_input.size(0):, ]
SliceEmb(emb, state) ==
    IF state.previous_input # None
    THEN SubSeq(emb, Size0(state.previous_input) + 1, Len(emb)) ELSE emb

\* lines 230-235: the causal + padding bias of the self attention
DecoderBias(tgt_words) ==
    LET tgt_batch == Len(tgt_words)
        tgt_len == Len(tgt_words[1])
        pad == EqPad(tgt_words)
        tgt_pad_mask == [b \in 1..tgt_batch |-> Tile(<<pad[b]>>, tgt_len)]
        decoder_local_mask == Tile(get_local_mask(tgt_len), tgt_batch)
    IN  [b \in 1..tgt_batch |-> [i \in 1..tgt_len |-> [j \in 1..tgt_len |->
            IF tgt_pad_mask[b][i][j] + decoder_local_mask[b][i][j] > 0
            THEN NEG ELSE 0]]]

RECURSIVE LayerLoop(_, _, _)
LayerLoop(i, ctx, acc) ==
    IF i > num_layers \/ ~acc.ok THEN acc
    ELSE Only({ Only({ LayerLoop(i + 1, ctx, nxt)
           : nxt \in {[ok |-> r.ok, output |-> r.ans, attn |-> r.attn,
                       saved_inputs |-> Append(acc.saved_inputs, r.all_inputs),
                       calls |-> acc.calls \o SetLayer(r.calls, i),
                       layers_run |-> i]} })
           : r \in {DecoderLayer(acc.output, ctx.src_memory_bank,
                        ctx.decoder_bias, ctx.encoder_decoder_bias,
                        IF ctx.state.previous_input # None
                        THEN ctx.state.previous_layer_inputs[i] ELSE None)} })

\* lines 213-260, once the checks have passed; attns["copy"], when copy
\* attention is enabled, is the same tensor as attns["std"]
DecoderRun(tgt, memory_bank, h, sref, state) ==
    Only({ Only({ Only({ Only({
        IF ~r.ok THEN Raise(h, r.layers_run, r.calls)
        ELSE Only({
               [ok |-> TRUE,
                outputs |-> Transpose01(LayerNorm(r.output)),
                heap |-> upd.heap, state |-> upd.ret,
                attns |-> [std |-> Transpose01(r.attn)],
                calls |-> r.calls, layers_run |-> r.layers_run]
               : upd \in {update_state(h, sref, full, r.saved_inputs)} })
      : r \in {LayerLoop(1, ctx,
                 [ok |-> TRUE, output |-> Transpose01(emb), attn |-> None,
                  saved_inputs |-> <<>>, calls |-> <<>>, layers_run |-> 0])} })
      : ctx \in {[state |-> state,
                  src_memory_bank |-> Transpose01(memory_bank),
                  decoder_bias |-> DecoderBias(Transpose01(Feature0(tgt))),
                  encoder_decoder_bias |->
                      PaddingBias(EqPad(Transpose01(Feature0(state.src))))]} })
      : emb \in {SliceEmb(Embeddings(full), state)} })
      : full \in {CatPrevious(state, tgt)} })

\* forward(self, tgt, memory_bank, state): h is the heap, sref the reference
\* to the state object passed
DecoderForward(tgt, memory_bank, h, sref) ==
    Only({
        IF ~isinstance(state) THEN Raise(h, 0, <<>>)
        ELSE IF ~EntryChecks(tgt, memory_bank, state) THEN Raise(h, 0, <<>>)
        ELSE IF /\ state.previous_input # None
                /\ Size1(state.previous_input) # Size1(tgt)
             THEN Raise(h, 0, <<>>)
        ELSE DecoderRun(tgt, memory_bank, h, sref, state)
      : state \in {Deref(h, sref)} })

\* init_decoder_state(self, src, memory_bank, enc_hidden)
init_decoder_state(s) == TransformerDecoderState(s)

(********************************* inputs **********************************)
\* a source batch [len x batch x 1]: example b carries word b and, as batches
\* of unequal lengths do, b - 1 trailing padding positions
SrcTensor(len, batch) ==
    [i \in 1..len |-> [b \in 1..batch |->
        << IF i > 1 /\ i > len - (b - 1) THEN PAD ELSE b >>]]

SrcInputs == {SrcTensor(l, b) : l \in 1..MaxSrcLen, b \in 1..MaxBatch}

\* a target batch [len x batch x 1]: the odd examples carry the row, the even
\* examples carry no padding
TgtTensor(row, batch) ==
    [i \in 1..Len(row) |-> [b \in 1..batch |->
        << IF b % 2 = 1 THEN row[i] ELSE 1 >>]]

Rows(n) == [1..n -> Words]

\* a memory bank [len x batch x dim] of opaque encoder outputs
MemoryBank(len, batch) ==
    [j \in 1..len |-> [b \in 1..batch |-> [m |-> <<j, b>>]]]

\* a size next to n within 1..max
Other(n, max) == (n % max) + 1

\* the number of target tokens the successful calls supplied
RECURSIVE TotalLen(_)
TotalLen(calls) ==
    IF calls = <<>> THEN 0 ELSE Len(calls[1]) + TotalLen(Tail(calls))

(****************************** the machine ********************************)
NoOp ==
    [op |-> "none", ok |-> TRUE, arg |-> 0, ret |-> 0, pre |-> <<>>,
     tgt_size |-> <<>>, mem_size |-> <<>>, outputs |-> None, attns |-> None,
     calls |-> <<>>, layers_run |-> 0]

Init ==
    /\ num_layers \in 1..MaxLayers
    /\ src = None
    /\ heap = <<>>
    /\ supplied = <<>>
    /\ last = NoOp

\* TransformerEncoder.forward on a source batch
Encode ==
    /\ src = None
    /\ \E input \in SrcInputs :
       \E r \in {EncoderForward(input)} :
             /\ src' = input
             /\ last' = [NoOp EXCEPT !.op = "encode", !.ok = r.ok,
                            !.outputs = r.out, !.calls = r.calls,
                            !.layers_run = num_layers]
    /\ UNCHANGED <<num_layers, heap, supplied>>

\* TransformerDecoder.init_decoder_state
InitDecoderState ==
    /\ src # None
    /\ heap = <<>>
    /\ heap' = <<init_decoder_state(src)>>
    /\ last' = [NoOp EXCEPT !.op = "init", !.ret = 1]
    /\ UNCHANGED <<num_layers, src, supplied>>

\* the calls tried on the threaded state, whose src is [L x B]: any target
\* rows with fitting arguments, and one call for each way not to fit (a
\* foreign state object, or one of the sizes off)
CallInputs(B, L, top) ==
    LET B2 == Other(B, MaxBatch)
        L2 == Other(L, MaxSrcLen)
    IN  { [sref |-> top, row |-> r, tb |-> B, mb |-> B, ml |-> L] :
              r \in UNION {Rows(n) : n \in 1..MaxNew} }
        \cup
        { [sref |-> 0, row |-> <<1>>, tb |-> B, mb |-> B, ml |-> L],
          [sref |-> top, row |-> <<1>>, tb |-> B2, mb |-> B2, ml |-> L],
          [sref |-> top, row |-> <<1>>, tb |-> B, mb |-> B2, ml |-> L],
          [sref |-> top, row |-> <<1>>, tb |-> B, mb |-> B, ml |-> L2] }

\* TransformerDecoder.forward on the threaded state (or on a foreign state)
Forward ==
    /\ heap # <<>>
    /\ \E in \in CallInputs(Size1(heap[Len(heap)].src),
                            Size0(heap[Len(heap)].src), Len(heap)) :
         /\ TotalLen(supplied) + Len(in.row) <= MaxCum
         /\ \E tgt \in {TgtTensor(in.row, in.tb)} :
            \E memory_bank \in {MemoryBank(in.ml, in.mb)} :
            \E r \in {DecoderForward(tgt, memory_bank, heap, in.sref)} :
              /\ heap' = r.heap
              /\ supplied' = IF r.ok THEN Append(supplied, tgt) ELSE supplied
              /\ last' = [op |-> "forward", ok |-> r.ok, arg |-> in.sref,
                          ret |-> r.state, pre |-> heap,
                          tgt_size |-> <<Size0(tgt), Size1(tgt)>>,
                          mem_size |-> <<Size0(memory_bank),
                                         Size1(memory_bank)>>,
                          outputs |-> r.outputs, attns |-> r.attns,
                          calls |-> r.calls, layers_run |-> r.layers_run]
    /\ UNCHANGED <<num_layers, src>>

\* TransformerDecoderState.repeat_beam_size_times on the threaded state
RepeatBeam ==
    /\ heap # <<>>
    /\ Size1(heap[Len(heap)].src) <= MaxBatch
    /\ \E beam_size \in 1..MaxBeam :
         /\ heap' = repeat_beam_size_times(heap, Len(heap), beam_size)
         /\ last' = [NoOp EXCEPT !.op = "repeat", !.arg = Len(heap),
                        !.pre = heap, !.tgt_size = <<beam_size>>]
    /\ UNCHANGED <<num_layers, src, supplied>>

Next == Encode \/ InitDecoderState \/ Forward \/ RepeatBeam

Spec == Init /\ [][Next]_vars

(******************************** claims ***********************************)
\* the state object the last forward call was given, as it was before the call
PassedState == last.pre[last.arg]

ForwardOk == last.op = "forward" /\ last.ok

\* the offset of call c within the concatenation of the supplied targets
Offset(c) == TotalLen(SubSeq(supplied, 1, c - 1))

\* the size of a [d0 x d1 x channels] activation tensor
Shape(x) == <<Len(x), Len(x[1]), "hidden_size">>

\* C4: a successful forward call returns as many output positions as target
\* tokens were supplied in that call, whatever history the state holds.
C4_OutputLength ==
    ForwardOk =>
        /\ Size0(last.outputs) = last.tgt_size[1]
        /\ Size0(last.outputs) = Size0(supplied[Len(supplied)])
        /\ Size1(last.outputs) = last.tgt_size[2]

C4_Witness ==
    /\ ForwardOk
    /\ PassedState.previous_input # None
    /\ Size0(PassedState.previous_input) = 2
    /\ last.tgt_size[1] = 1

\* C5: a successful forward call (and the update_state it ends with) leaves
\* every object that existed before the call as it was, and returns a new
\* object with the same src, the old previous_input followed by the supplied
\* tokens, and one cached layer input per layer.
C5_StateNotMutated ==
    ForwardOk =>
        /\ \A k \in 1..Len(last.pre) : heap[k] = last.pre[k]
        /\ last.ret \in (1..Len(heap)) \ (1..Len(last.pre))
        /\ heap[last.ret].src = PassedState.src
        /\ LET old == PassedState.previous_input
               new == heap[last.ret].previous_input
               tgt == supplied[Len(supplied)]
           IN  /\ Len(new) = Len(old) + Len(tgt)
               /\ \A t \in 1..Len(old) : new[t] = old[t]
               /\ \A t \in 1..Len(tgt) : new[Len(old) + t] = tgt[t]
        /\ heap[last.ret].previous_layer_inputs # None
        /\ heap[last.ret].previous_layer_inputs
               # PassedState.previous_layer_inputs

C5_Witness ==
    /\ ForwardOk
    /\ PassedState.previous_input # None
    /\ last.ret = 3

\* C6 as stated: every state a forward call returned caches one entry per
\* layer, each sized [cumulative target length, batch, channels].
C6_Original ==
    \A k \in 2..Len(heap) :
        /\ Len(heap[k].previous_layer_inputs) = num_layers
        /\ \A i \in 1..num_layers :
             Shape(heap[k].previous_layer_inputs[i])
                 = <<Offset(k), Size1(supplied[k - 1]), "hidden_size">>

\* C6 as amended: every state a forward call returned caches one entry per
\* layer, each sized [batch, cumulative target length, channels].
C6_CacheShape ==
    \A k \in 2..Len(heap) :
        /\ Len(heap[k].previous_layer_inputs) = num_layers
        /\ \A i \in 1..num_layers :
             /\ Shape(heap[k].previous_layer_inputs[i])
                    = <<Size1(supplied[k - 1]), Offset(k), "hidden_size">>
             /\ \A b \in 1..Size1(supplied[k - 1]) :
                    Len(heap[k].previous_layer_inputs[i][b]) = Offset(k)

C6_Witness ==
    /\ Len(heap) = 3
    /\ num_layers = 2
    /\ Size1(supplied[1]) = 2
    /\ Offset(3) = 3

\* C7: repeat_beam_size_times(k) replaces src by a tensor of the same length
\* and features whose batch is k times the old one, new example j being old
\* example j mod B.
C7_RepeatBeam ==
    last.op = "repeat" =>
        LET old == last.pre[last.arg].src
            new == heap[last.arg].src
            k == last.tgt_size[1]
            B == Size1(old)
        IN  /\ Size0(new) = Size0(old)
            /\ \A i \in 1..Size0(new) :
                 /\ Len(new[i]) = k * B
                 /\ \A j \in 1..(k * B) : new[i][j] = old[i][((j - 1) % B) + 1]

C7_Witness ==
    /\ last.op = "repeat"
    /\ last.tgt_size[1] = 2
    /\ Size1(last.pre[last.arg].src) = 2
    /\ Size1(heap[last.arg].src) = 4

\* whether the arguments of the last forward call fail one of the entry checks
MisfitCall ==
    \/ last.arg = 0
    \/ last.tgt_size[2] # last.mem_size[2]
    \/ last.tgt_size[2] # Size1(PassedState.src)
    \/ last.mem_size[1] # Size0(PassedState.src)

\* C8: a forward call given a foreign state, unequal batch sizes or a memory
\* bank whose length is not the source length raises before any layer runs,
\* returns nothing and leaves the heap as it was.
C8_FailFast ==
    (last.op = "forward" /\ MisfitCall) =>
        /\ ~last.ok
        /\ last.layers_run = 0
        /\ last.calls = <<>>
        /\ last.outputs = None
        /\ last.ret = 0
        /\ heap = last.pre

C8_Witness ==
    /\ last.op = "forward"
    /\ last.arg # 0
    /\ PassedState.previous_input # None
    /\ last.tgt_size[2] = last.mem_size[2]
    /\ last.tgt_size[2] = Size1(PassedState.src)
    /\ last.mem_size[1] # Size0(PassedState.src)
    /\ ~last.ok

\* C9: the previous_input of the k-th state of the session is the targets of
\* the first k - 1 successful calls, in call order, token by token; only the
\* state init_decoder_state made holds None.
C9_PreviousInput ==
    \A k \in 1..Len(heap) :
        IF k = 1 THEN heap[k].previous_input = None
        ELSE /\ heap[k].previous_input # None
             /\ Len(heap[k].previous_input) = Offset(k)
             /\ \A c \in 1..(k - 1) : \A t \in 1..Len(supplied[c]) :
                    heap[k].previous_input[Offset(c) + t] = supplied[c][t]

C9_Witness ==
    /\ Len(heap) = 3
    /\ Len(supplied) = 2
    /\ supplied[1][1][1] = <<PAD>>
    /\ supplied[2][1][1] = <<1>>
    /\ Len(supplied[2]) = 2

\* the key positions of an attention call that query i of example b may not
\* attend to: those the additive bias sets to the large negative constant
Disallowed(call, b, i) ==
    IF call.bias = None THEN {}
    ELSE {j \in 1..call.nk : Bc(Bc(Bc(call.bias, b), i), j) = NEG}

\* the words at the key positions of an attention call of the last operation
KeyWords(call) ==
    IF call.kind = "enc_self" THEN Transpose01(Feature0(src))
    ELSE IF call.kind = "dec_cross" THEN Transpose01(Feature0(PassedState.src))
    ELSE Transpose01(Feature0(heap[last.ret].previous_input))

\* the session fed its targets one token per call
TokenByToken == \A c \in 1..Len(supplied) : Len(supplied[c]) = 1

\* one non-incremental call over the whole target of the state just returned
FullCall ==
    DecoderForward(heap[last.ret].previous_input,
                   MemoryBank(last.mem_size[1], last.mem_size[2]),
                   <<init_decoder_state(PassedState.src)>>, 1)

\* C1: fed token by token through the threaded state, each call returns the
\* output that one non-incremental call over the whole target returns for
\* that position, and caches the key values that call computes in each layer.
C1_IncrementalEqualsFull ==
    (ForwardOk /\ TokenByToken) =>
        /\ FullCall.ok
        /\ last.outputs = <<FullCall.outputs[Len(FullCall.outputs)]>>
        /\ heap[last.ret].previous_layer_inputs
               = FullCall.heap[2].previous_layer_inputs

\* C2: in every self-attention call of a successful forward call, a query
\* attends to no key position after its own position in the target.
C2_Causal ==
    ForwardOk =>
        \A c \in 1..Len(last.calls) :
            last.calls[c].kind = "dec_self" =>
                \A b \in 1..last.tgt_size[2] : \A i \in 1..last.calls[c].nq :
                    Allowed(last.calls[c].bias, b, i, last.calls[c].nk)
                        \subseteq 1..(last.calls[c].nk - last.calls[c].nq + i)

\* C3: in every attention call of the encoder stack and of a successful
\* decoder call, each key position that holds the padding word is disallowed
\* by the bias for every query.
C3_PaddingMasked ==
    ((last.op = "encode" /\ last.ok) \/ ForwardOk) =>
        \A c \in 1..Len(last.calls) :
            \A b \in 1..Len(KeyWords(last.calls[c])) :
            \A j \in 1..last.calls[c].nk :
                KeyWords(last.calls[c])[b][j] = PAD =>
                    \A i \in 1..last.calls[c].nq :
                        j \in Disallowed(last.calls[c], b, i)

\* C10: whatever the order of init_decoder_state, forward and
\* repeat_beam_size_times, the cached previous_input and previous_layer_inputs
\* of a state have the batch size of its src.
C10_CacheBatchMatchesSrc ==
    \A k \in 1..Len(heap) :
        heap[k].previous_input # None =>
            /\ Size1(heap[k].previous_input) = Size1(heap[k].src)
            /\ \A i \in 1..Len(heap[k].previous_layer_inputs) :
                   Len(heap[k].previous_layer_inputs[i]) = Size1(heap[k].src)

====
